---- MODULE Spec2Model ----
(***************************************************************************)
(* Model of the 1D spring-assembly solver of src/fea_core.py: Node,        *)
(* SpringElement and SpringFEASolver (assemble / solve), driven by a       *)
(* caller that owns the node and element lists.                            *)
(*                                                                         *)
(* Reals.  The code computes in IEEE doubles.  In the model every input    *)
(* real (load, stiffness, prescribed displacement) is an integer, so the   *)
(* assembled K, F and u_known are integers, and the sums and products of   *)
(* assembly are exact in doubles as well.  The results of solve            *)
(* (displacements, reactions, axial forces) are exact rationals: a pair    *)
(* <<num, den>> in lowest terms with den > 0.  The linear solve is the     *)
(* exact solution (Cramer's rule), failing exactly when the matrix is      *)
(* singular.                                                               *)
(*                                                                         *)
(* Indices.  Python lists and arrays are 0-based.  DOF indices and array   *)
(* positions keep their 0-based values (0..n-1); the node list and the     *)
(* element list are TLA+ sequences, so list position p (0-based) is        *)
(* sequence index p+1.  An element refers to its two Node objects by their *)
(* position in the node list.                                              *)
(***************************************************************************)
EXTENDS Integers, Sequences, FiniteSets, TLC

VARIABLES
    nodes,      \* the caller's list of Node objects (solver.nodes)
    elements,   \* the caller's list of SpringElement objects (solver.elements)
    n,          \* solver.n
    K_full,     \* solver.K_full
    F_full,     \* solver.F_full
    fixed,      \* solver.fixed
    u_known,    \* solver.u_known
    ret,        \* outcome of the last call: what it returned or that it raised
    assembled,  \* history: assemble() has run on this solver
    repeated,   \* history: the last solver call repeated the call before it
    app         \* the App window of gui.py: its table and timer fields

vars == <<nodes, elements, n, K_full, F_full, fixed, u_known, ret,
          assembled, repeated, app>>

----------------------------------------------------------------------------
(* Bounds of the model. *)

MaxNodes == 3
MaxElems == 2
MaxLoaded == 1
MaxPrescribed == 1
MaxFormNodes == 2
MaxFormRows == 1

(* Input values. *)
Loads == {0, 5}
Stiffnesses == {-1, 0, 1, 10}
PrescribedValues == {0, 2}

----------------------------------------------------------------------------
(* Op applied to the value of v, with v evaluated once. *)
With(v, Op(_)) == CHOOSE r \in {Op(x) : x \in {v}} : TRUE

(* Exact rationals. *)

Abs(x) == IF x < 0 THEN -x ELSE x

RECURSIVE GCD(_, _)
GCD(a, b) == IF b = 0 THEN a ELSE GCD(b, a % b)

Frac(p, q) ==
    LET s == IF q < 0 THEN -1 ELSE 1
        g == GCD(Abs(p), Abs(q))
    IN  <<(s * p) \div g, (s * q) \div g>>

Rat(i) == <<i, 1>>
RZero == Rat(0)
RAdd(x, y) == Frac(x[1] * y[2] + y[1] * x[2], x[2] * y[2])
RSub(x, y) == Frac(x[1] * y[2] - y[1] * x[2], x[2] * y[2])
RScale(i, x) == Frac(i * x[1], x[2])

RECURSIVE Sum(_)
Sum(s) == IF s = <<>> THEN 0 ELSE Head(s) + Sum(Tail(s))

RECURSIVE RSum(_)
RSum(s) == IF s = <<>> THEN RZero ELSE RAdd(Head(s), RSum(Tail(s)))

----------------------------------------------------------------------------
(* Node (fea_core.py:10-19). *)

Node(node_id) ==
    [id |-> node_id, force |-> 0, fixed |-> FALSE, prescribed |-> FALSE,
     u_prescribed |-> 0, u |-> RZero, dof |-> node_id - 1]

(* SpringElement (fea_core.py:21-59).  ni, nj are positions of Node        *)
(* objects in the node list.                                               *)

(* Variant: the stiffness test is strict, so k = 0 is accepted. *)
InvalidElement_StrictK(ni, nj, k) ==
    \/ nodes[ni].id = nodes[nj].id
    \/ k < 0

InvalidElement(ni, nj, k) ==
    \/ nodes[ni].id = nodes[nj].id
    \/ k <= 0

SpringElement(ni, nj, k) == [i |-> ni, j |-> nj, k |-> k, axial |-> RZero]

(* Variant: the coupling entries are missing (each end sprung to ground). *)
ke_Grounded(e) == <<<<e.k, 0>>, <<0, e.k>>>>

(* Variant: the second row has its signs swapped. *)
ke_SwappedRow(e) == <<<<e.k, -e.k>>, <<e.k, -e.k>>>>

ke(e) == <<<<e.k, -e.k>>, <<-e.k, e.k>>>>

connectivity(e) == <<nodes[e.i].dof, nodes[e.j].dof>>

(* Variant: only the two diagonal entries are updated. *)
add_to_global_DiagonalOnly(e, K) ==
    LET ii == connectivity(e)[1]
        jj == connectivity(e)[2]
        m  == ke(e)
        K1 == [K  EXCEPT ![ii][ii] = @ + m[1][1]]
    IN  [K1 EXCEPT ![jj][jj] = @ + m[2][2]]

(* Variant: the entry below the diagonal is not updated. *)
add_to_global_UpperOnly(e, K) ==
    LET ii == connectivity(e)[1]
        jj == connectivity(e)[2]
        m  == ke(e)
        K1 == [K  EXCEPT ![ii][ii] = @ + m[1][1]]
        K2 == [K1 EXCEPT ![ii][jj] = @ + m[1][2]]
    IN  [K2 EXCEPT ![jj][jj] = @ + m[2][2]]

add_to_global(e, K) ==
    LET ii == connectivity(e)[1]
        jj == connectivity(e)[2]
        m  == ke(e)
        K1 == [K  EXCEPT ![ii][ii] = @ + m[1][1]]
        K2 == [K1 EXCEPT ![ii][jj] = @ + m[1][2]]
        K3 == [K2 EXCEPT ![jj][ii] = @ + m[2][1]]
    IN  [K3 EXCEPT ![jj][jj] = @ + m[2][2]]

(* Variant: the difference is taken the other way round. *)
elongation_Reversed(e, u) == RSub(u[connectivity(e)[1]], u[connectivity(e)[2]])

elongation(e, u) == RSub(u[connectivity(e)[2]], u[connectivity(e)[1]])

(* Variant: the force is added to the element's stored axial force. *)
axial_force_Accumulated(e, u) == RAdd(e.axial, RScale(e.k, elongation(e, u)))

axial_force(e, u) == RScale(e.k, elongation(e, u))

(* Variant: both end forces take the sign of the force on node j. *)
nodal_actions_SameSign(e, u) ==
    LET ui == u[connectivity(e)[1]]
        uj == u[connectivity(e)[2]]
    IN  <<RScale(e.k, RSub(uj, ui)), RScale(e.k, RSub(uj, ui))>>

nodal_actions(e, u) ==
    LET ui == u[connectivity(e)[1]]
        uj == u[connectivity(e)[2]]
    IN  <<RScale(e.k, RSub(ui, uj)), RScale(e.k, RSub(uj, ui))>>

----------------------------------------------------------------------------
(* SpringFEASolver (fea_core.py:62-123). *)

DOFs == 0 .. (n - 1)

zeros(m) == [a \in 0 .. (m - 1) |-> 0]

zeros2(m) == [a \in 0 .. (m - 1) |-> zeros(m)]

(* Variant: the element loop adds into the stored matrix. *)
FreshK_Stored == K_full

(* assemble, line 75: the matrix the element loop starts from. *)
FreshK == zeros2(n)

(* assemble, lines 76-77: the loop over the element list, in list order. *)
RECURSIVE AddAll(_, _)
AddAll(es, K) ==
    IF es = <<>> THEN K
    ELSE AddAll(Tail(es), With(K, LAMBDA K0 : add_to_global(Head(es), K0)))

(* Variant: an element joining the same two nodes as an earlier element of *)
(* the list is skipped.                                                    *)
AssembleK_SkipParallel(es) ==
    LET keep == SelectSeq([p \in 1 .. Len(es) |-> p],
                          LAMBDA p : ~\E q \in 1 .. (p - 1) :
                                        {es[q].i, es[q].j} = {es[p].i, es[p].j})
    IN  AddAll([x \in 1 .. Len(keep) |-> es[keep[x]]], FreshK)

AssembleK(es) == AddAll(es, FreshK)

(* assemble, lines 79-81: what is captured from a node. *)
LoadOf(nd) == nd.force
(* Variant: a node with a prescribed value counts as constrained. *)
MaskOf_OrPrescribed(nd) == nd.fixed \/ nd.prescribed

MaskOf(nd) == nd.fixed
(* Variant: the prescribed value is captured whatever the flag is. *)
KnownOf_IgnoreFlag(nd) == nd.u_prescribed

KnownOf(nd) == IF nd.prescribed THEN nd.u_prescribed ELSE 0

(* What assemble() stores (lines 78-81), as one record. *)
Assembled ==
    [K |-> AssembleK(elements),
     F |-> [d \in DOFs |-> LoadOf(nodes[d + 1])],
     fixed |-> [d \in DOFs |-> MaskOf(nodes[d + 1])],
     u_known |-> [d \in DOFs |-> KnownOf(nodes[d + 1])]]

NoVec == [d \in {} |-> RZero]

Returned(op) ==
    [op |-> op, raised |-> FALSE, u |-> NoVec, R |-> NoVec,
     free_idx |-> <<>>, fixed_idx |-> <<>>]

Raised(op) == [Returned(op) EXCEPT !.raised = TRUE]

Assemble ==
    \E S \in {Assembled} :
    /\ K_full' = S.K
    /\ F_full' = S.F
    /\ fixed' = S.fixed
    /\ u_known' = S.u_known
    /\ ret' = Returned("assemble")
    /\ assembled' = TRUE
    /\ repeated' = (ret.op = "assemble")
    /\ UNCHANGED <<nodes, elements, n, app>>

(* numpy helpers used by solve. *)

Range0(m) == [p \in 1 .. m |-> p - 1]

(* K.sum(): the sum of all entries. *)
MatSum(K, m) == Sum([p \in 1 .. (m * m) |-> K[(p - 1) \div m][(p - 1) % m]])

(* np.where(mask)[0]: the indices where mask holds, ascending. *)
where(mask, m) == SelectSeq(Range0(m), LAMBDA d : mask[d])

(* u[idx] = vals *)
Place(u, idx, vals) ==
    [d \in DOMAIN u |->
        IF \E p \in 1 .. Len(idx) : idx[p] = d
        THEN vals[CHOOSE p \in 1 .. Len(idx) : idx[p] = d]
        ELSE u[d]]

(* Determinant of a square integer matrix given as a sequence of rows. *)
Minor(A, c) ==
    [r \in 1 .. (Len(A) - 1) |->
        [q \in 1 .. (Len(A) - 1) |-> A[r + 1][IF q < c THEN q ELSE q + 1]]]

RECURSIVE Det(_)
Det(A) ==
    IF Len(A) = 0 THEN 1
    ELSE Sum([c \in 1 .. Len(A) |->
            (IF c % 2 = 1 THEN A[1][c] ELSE -A[1][c])
                * With(Minor(A, c), Det)])

ReplaceCol(A, c, b) ==
    [r \in 1 .. Len(A) |->
        [q \in 1 .. Len(A) |-> IF q = c THEN b[r] ELSE A[r][q]]]

Cramer(A, b, det) ==
    IF det = 0
    THEN [ok |-> FALSE, x |-> <<>>]
    ELSE [ok |-> TRUE,
          x |-> [c \in 1 .. Len(A) |->
                    Frac(With(ReplaceCol(A, c, b), Det), det)]]

(* Variant: a singular matrix is not reported; the zero vector is returned. *)
linalg_solve_Unchecked(A, b) ==
    CHOOSE r \in {IF Det(M[1]) = 0
                  THEN [ok |-> TRUE, x |-> [c \in 1 .. Len(M[1]) |-> RZero]]
                  ELSE Cramer(M[1], M[2], Det(M[1])) : M \in {<<A, b>>}} : TRUE

(* np.linalg.solve(A, b): the exact solution, or LinAlgError when A is     *)
(* singular.                                                               *)
linalg_solve(A, b) ==
    CHOOSE r \in {Cramer(M[1], M[2], Det(M[1])) : M \in {<<A, b>>}} : TRUE

(* solve, line 85: whether solve() assembles first. *)
NeedsAssembly == MatSum(K_full, n) = 0

(* solve, lines 85-86: the stored system solve() works on. *)
Stored ==
    IF NeedsAssembly THEN Assembled
    ELSE [K |-> K_full, F |-> F_full, fixed |-> fixed, u_known |-> u_known]

(* Variant: the mask is not negated. *)
FreeIdx_NotNegated(mask) == where(mask, n)

(* solve, lines 87-88. *)
FreeIdx(mask) == where([d \in DOFs |-> ~mask[d]], n)
FixedIdx(mask) == where(mask, n)

(* Variant: the known displacements are not carried to the right-hand side. *)
Rhs_NoKnown(S, free, fix, uc) == [p \in 1 .. Len(free) |-> S.F[free[p]]]

(* solve, lines 103-107. *)
Rhs(S, free, fix, uc) ==
    LET Ff == [p \in 1 .. Len(free) |-> S.F[free[p]]]
    IN  IF Len(fix) > 0
        THEN [p \in 1 .. Len(free) |->
                Ff[p] - Sum([q \in 1 .. Len(fix) |->
                                S.K[free[p]][fix[q]] * uc[q]])]
        ELSE Ff

(* Variant: without a free DOF the empty system is handed to the linear     *)
(* solver, which rejects it.                                               *)
FreeSolution_EmptyFails(S, free, fix, uc) ==
    IF Len(free) = 0 THEN [ok |-> FALSE, x |-> <<>>]
    ELSE linalg_solve([a \in 1 .. Len(free) |->
                          [b \in 1 .. Len(free) |-> S.K[free[a]][free[b]]]],
                      Rhs(S, free, fix, uc))

(* solve, lines 102 and 108-111: the free displacements, or the raise. *)
FreeSolution(S, free, fix, uc) ==
    IF Len(free) = 0 THEN [ok |-> TRUE, x |-> <<>>]
    ELSE linalg_solve([a \in 1 .. Len(free) |->
                          [b \in 1 .. Len(free) |-> S.K[free[a]][free[b]]]],
                      Rhs(S, free, fix, uc))

(* Variant: the known displacements are not written into u. *)
FullU_NoKnown(free, uf, fix, uc) ==
    LET u0 == [d \in DOFs |-> RZero]
    IN  IF Len(free) = 0 THEN u0 ELSE Place(u0, free, uf)

(* solve, lines 89, 94 and 112-114: the full displacement vector. *)
FullU(free, uf, fix, uc) ==
    LET u0 == [d \in DOFs |-> RZero]
        u1 == IF Len(free) = 0 THEN u0 ELSE Place(u0, free, uf)
    IN  IF Len(fix) > 0
        THEN Place(u1, fix, [p \in 1 .. Len(fix) |-> Rat(uc[p])])
        ELSE u1

(* Variant: the applied loads are not subtracted. *)
Reactions_NoLoad(S, u) ==
    [a \in DOFs |->
        RSum([p \in 1 .. n |-> RScale(S.K[a][p - 1], u[p - 1])])]

(* Variant: the residual is taken with the opposite sign. *)
Reactions_Negated(S, u) ==
    [a \in DOFs |->
        RSub(Rat(S.F[a]),
             RSum([p \in 1 .. n |-> RScale(S.K[a][p - 1], u[p - 1])]))]

(* solve, lines 95 and 115. *)
Reactions(S, u) ==
    [a \in DOFs |->
        RSub(RSum([p \in 1 .. n |-> RScale(S.K[a][p - 1], u[p - 1])]),
             Rat(S.F[a]))]

(* Variant: the write-back loops also run when the linear solve fails, on  *)
(* the vector of zeros u was created as.                                   *)
Solve_WriteBackOnFailure ==
    \E S \in {Stored} :
    \E free \in {FreeIdx(S.fixed)} :
    \E fix \in {FixedIdx(S.fixed)} :
    \E uc \in {[p \in 1 .. Len(fix) |-> S.u_known[fix[p]]]} :
    \E sol \in {FreeSolution(S, free, fix, uc)} :
    /\ K_full' = S.K
    /\ F_full' = S.F
    /\ fixed' = S.fixed
    /\ u_known' = S.u_known
    /\ IF ~sol.ok
       THEN /\ ret' = Raised("solve")
            /\ nodes' = [p \in 1 .. Len(nodes) |->
                            [nodes[p] EXCEPT !.u = RZero]]
            /\ elements' = [p \in 1 .. Len(elements) |->
                            [elements[p] EXCEPT !.axial = RZero]]
       ELSE \E u \in {FullU(free, sol.x, fix, uc)} :
            /\ nodes' = [p \in 1 .. Len(nodes) |->
                            [nodes[p] EXCEPT !.u = u[p - 1]]]
            /\ elements' = [p \in 1 .. Len(elements) |->
                            [elements[p] EXCEPT
                                !.axial = axial_force(elements[p], u)]]
            /\ ret' = [Returned("solve") EXCEPT
                        !.u = u, !.R = Reactions(S, u),
                        !.free_idx = free, !.fixed_idx = fix]
    /\ assembled' = (assembled \/ NeedsAssembly)
    /\ repeated' = (ret.op = "solve")
    /\ UNCHANGED <<n, app>>

(* solve, lines 84-120.  Each \E over a one-element set names a local of   *)
(* the method.                                                             *)
Solve ==
    \E S \in {Stored} :
    \E free \in {FreeIdx(S.fixed)} :
    \E fix \in {FixedIdx(S.fixed)} :
    \E uc \in {[p \in 1 .. Len(fix) |-> S.u_known[fix[p]]]} :
    \E sol \in {FreeSolution(S, free, fix, uc)} :
    /\ K_full' = S.K
    /\ F_full' = S.F
    /\ fixed' = S.fixed
    /\ u_known' = S.u_known
    /\ IF ~sol.ok
       THEN /\ ret' = Raised("solve")
            /\ UNCHANGED <<nodes, elements>>
       ELSE \E u \in {FullU(free, sol.x, fix, uc)} :
            /\ nodes' = [p \in 1 .. Len(nodes) |->
                            [nodes[p] EXCEPT !.u = u[p - 1]]]
            /\ elements' = [p \in 1 .. Len(elements) |->
                            [elements[p] EXCEPT
                                !.axial = axial_force(elements[p], u)]]
            /\ ret' = [Returned("solve") EXCEPT
                        !.u = u, !.R = Reactions(S, u),
                        !.free_idx = free, !.fixed_idx = fix]
    /\ assembled' = (assembled \/ NeedsAssembly)
    /\ repeated' = (ret.op = "solve")
    /\ UNCHANGED <<n, app>>

element_forces == [p \in 1 .. Len(elements) |-> elements[p].axial]

(* solve, lines 87-120, as a function of the stored system S: whether it   *)
(* raises and, if not, the returned u and R and the axial forces it writes *)
(* to the elements.                                                        *)
SolveOutcome(S, free, fix, uc, sol) ==
    IF ~sol.ok
    THEN [raised |-> TRUE, u |-> NoVec, R |-> NoVec, axial |-> <<>>]
    ELSE CHOOSE r \in
            {[raised |-> FALSE, u |-> u, R |-> Reactions(S, u),
              axial |-> [p \in 1 .. Len(elements) |->
                            axial_force(elements[p], u)]] :
                u \in {FullU(free, sol.x, fix, uc)}} : TRUE

SolveResult(S) ==
    LET T1 == {<<FreeIdx(S.fixed), FixedIdx(S.fixed)>>}
        T2 == {<<a[1], a[2], [p \in 1 .. Len(a[2]) |-> S.u_known[a[2][p]]]>> :
                a \in T1}
        T3 == {<<b[1], b[2], b[3], FreeSolution(S, b[1], b[2], b[3])>> :
                b \in T2}
    IN  CHOOSE r \in {SolveOutcome(S, t[1], t[2], t[3], t[4]) : t \in T3} : TRUE

----------------------------------------------------------------------------
(* The caller. *)

(* A Node as the caller configures it before the solver is built. *)
InputNode(node_id, f, fx, pr, up) ==
    [Node(node_id) EXCEPT
        !.force = f, !.fixed = fx, !.prescribed = pr, !.u_prescribed = up]

Count(m, P(_)) == Cardinality({p \in 1 .. m : P(p)})

(* The node lists of m nodes with ids 1..m in list order, at most          *)
(* MaxLoaded of them loaded and at most maxPrescribed of them with a       *)
(* prescribed flag or value set.                                           *)
InputNodeLists(m, maxPrescribed) ==
    LET C == {c \in [1 .. m -> Loads \X BOOLEAN \X BOOLEAN \X PrescribedValues] :
                /\ Count(m, LAMBDA p : c[p][1] # 0) <= MaxLoaded
                /\ Count(m, LAMBDA p : c[p][3] \/ c[p][4] # 0) <= maxPrescribed}
    IN  {[p \in 1 .. m |-> InputNode(p, c[p][1], c[p][2], c[p][3], c[p][4])] :
            c \in C}

(* The value of app where no window is modelled: the core used on its own, *)
(* or handlers followed without their timers.                              *)
NoApp == [handler |-> "none"]

(* solver = SpringFEASolver(nodes, []) (lines 64-71). *)
NewSolver(nodeList) ==
    /\ nodes = nodeList
    /\ elements = <<>>
    /\ n = Len(nodeList)
    /\ K_full = zeros2(Len(nodeList))
    /\ F_full = zeros(Len(nodeList))
    /\ fixed = [d \in 0 .. (Len(nodeList) - 1) |-> FALSE]
    /\ u_known = zeros(Len(nodeList))
    /\ ret = Returned("init")
    /\ assembled = FALSE
    /\ repeated = FALSE

(* elements.append(SpringElement(nodes[ni], nodes[nj], k)) *)
NewElement(ni, nj, k) ==
    /\ IF InvalidElement(ni, nj, k)
       THEN /\ ret' = Raised("SpringElement")
            /\ UNCHANGED elements
       ELSE /\ Len(elements) < MaxElems
            /\ elements' = Append(elements, SpringElement(ni, nj, k))
            /\ ret' = Returned("SpringElement")
    /\ repeated' = FALSE
    /\ UNCHANGED <<nodes, n, K_full, F_full, fixed, u_known, assembled, app>>

----------------------------------------------------------------------------
(* Spec: any springs between any two nodes, over nodes that are free or    *)
(* fixed at 0.                                                             *)

Init ==
    /\ app = NoApp
    /\ \E m \in 1 .. MaxNodes : \E nl \in InputNodeLists(m, 0) : NewSolver(nl)

Next ==
    \/ \E ni \in 1 .. n, nj \in 1 .. n, k \in Stiffnesses : NewElement(ni, nj, k)
    \/ Assemble
    \/ Solve

Spec == Init /\ [][Next]_vars

(* SpecBC: series chains (springs from a node to the next one), over nodes *)
(* with any combination of constraint flag, prescribed flag and prescribed *)
(* value.                                                                  *)

InitBC ==
    /\ app = NoApp
    /\ \E m \in 1 .. MaxNodes :
          \E nl \in InputNodeLists(m, MaxPrescribed) : NewSolver(nl)

NextBC ==
    \/ \E ni \in 1 .. (n - 1), k \in Stiffnesses : NewElement(ni, ni + 1, k)
    \/ Assemble
    \/ Solve

SpecBC == InitBC /\ [][NextBC]_vars

(* SpecEdit: series chains over nodes that are free or fixed at 0, where   *)
(* the caller also sets or clears the constrained flag of a node between   *)
(* solver calls.                                                           *)

(* nodes[p].fixed = b, by the owner of the node list. *)
SetFixed(p, b) ==
    /\ nodes[p].fixed # b
    /\ nodes' = [nodes EXCEPT ![p].fixed = b]
    /\ ret' = Returned("Node.fixed")
    /\ repeated' = FALSE
    /\ UNCHANGED <<elements, n, K_full, F_full, fixed, u_known, assembled,
                   app>>

NextEdit ==
    \/ \E ni \in 1 .. (n - 1), k \in Stiffnesses : NewElement(ni, ni + 1, k)
    \/ \E p \in 1 .. n, b \in BOOLEAN : SetFixed(p, b)
    \/ Assemble
    \/ Solve

SpecEdit == Init /\ [][NextEdit]_vars

----------------------------------------------------------------------------
(* The presentation layer (gui.py): collect_model reads the input tables   *)
(* and builds the Node and SpringElement lists; solve_model builds a       *)
(* solver on them, assembles and solves.  A form is what the tables hold   *)
(* when a handler runs: the node count field, the load / BC / u rows and   *)
(* the element rows.  Every entry holds a number; the node count field may *)
(* differ from the number of table rows, which follow it only on Apply.    *)

BCTypes == {"Free", "Fixed", "Prescribed"}
FormLoads == {0, 5}
FormUValues == {2}
FormStiffnesses == {0, 10}

NodeRows == [force : FormLoads, bc : BCTypes, uval : FormUValues]

ElemRows ==
    [i : 0 .. (MaxFormNodes + 1), j : 0 .. (MaxFormNodes + 1),
     k : FormStiffnesses]

Forms ==
    [nN : 0 .. MaxFormNodes,
     node_rows : UNION {[1 .. m -> NodeRows] : m \in 1 .. MaxFormNodes},
     elem_entries : UNION {[1 .. m -> ElemRows] : m \in 0 .. MaxFormRows}]

(* collect_model, lines 526-545: the Node built for table row r (1-based). *)
CollectNode(r, row) ==
    [Node(r) EXCEPT
        !.force = row.force,
        !.fixed = (row.bc = "Fixed" \/ row.bc = "Prescribed"),
        !.prescribed = (row.bc = "Prescribed"),
        !.u_prescribed = IF row.bc = "Prescribed" THEN row.uval ELSE 0]

(* Variant: only the upper end of the range is tested. *)
RowOutOfRange_UpperOnly(row, nN) == row.i > nN \/ row.j > nN

(* collect_model, line 554. *)
RowOutOfRange(row, nN) ==
    row.i < 1 \/ row.j < 1 \/ row.i > nN \/ row.j > nN

(* nodes[i - 1] on a Python list of length nN: a negative index counts     *)
(* from the end, an index outside -nN .. nN-1 raises IndexError.  The      *)
(* result is the position in the node list (1-based), 0 for IndexError.    *)
ListPosition(i, nN) ==
    IF i - 1 >= nN \/ i - 1 < -nN THEN 0
    ELSE IF i - 1 < 0 THEN i + nN
    ELSE i

(* SpringElement.__init__, lines 24-27, on nodes of the list being built. *)
ElementRejected(nl, ni, nj, k) == nl[ni].id = nl[nj].id \/ k <= 0

(* collect_model, lines 548-556: the loop over the element rows from row   *)
(* r on; made holds the rows a SpringElement was constructed for.          *)
RECURSIVE CollectElements(_, _, _, _, _)
CollectElements(nl, rows, r, els, made) ==
    IF r > Len(rows)
    THEN [error |-> "", elements |-> els, constructed |-> made]
    ELSE IF RowOutOfRange(rows[r], Len(nl))
    THEN [error |-> "range", elements |-> els, constructed |-> made]
    ELSE IF ListPosition(rows[r].i, Len(nl)) = 0
              \/ ListPosition(rows[r].j, Len(nl)) = 0
    THEN [error |-> "index", elements |-> els, constructed |-> made]
    ELSE IF ElementRejected(nl, ListPosition(rows[r].i, Len(nl)),
                            ListPosition(rows[r].j, Len(nl)), rows[r].k)
    THEN [error |-> "element", elements |-> els,
          constructed |-> Append(made, r)]
    ELSE CollectElements(nl, rows, r + 1,
            Append(els, SpringElement(ListPosition(rows[r].i, Len(nl)),
                                      ListPosition(rows[r].j, Len(nl)),
                                      rows[r].k)),
            Append(made, r))

(* collect_model, lines 524-561.  proceed is the user's answer to the      *)
(* "No supports" question.  error is "" when the lists are returned.       *)
collect_model(form, proceed) ==
    IF form.nN > Len(form.node_rows)
    THEN [error |-> "forces", nodes |-> <<>>, elements |-> <<>>,
          constructed |-> <<>>]
    ELSE CHOOSE c \in
        {IF ce.error # ""
         THEN [error |-> ce.error, nodes |-> <<>>, elements |-> <<>>,
               constructed |-> ce.constructed]
         ELSE IF (\A p \in 1 .. form.nN : ~ce.nl[p].fixed) /\ ~proceed
         THEN [error |-> "aborted", nodes |-> <<>>, elements |-> <<>>,
               constructed |-> ce.constructed]
         ELSE [error |-> "", nodes |-> ce.nl, elements |-> ce.elements,
               constructed |-> ce.constructed] :
            ce \in {[nl |-> nl] @@ CollectElements(nl, form.elem_entries, 1,
                                                  <<>>, <<>>) :
                    nl \in {[r \in 1 .. form.nN |->
                                CollectNode(r, form.node_rows[r])]}}} : TRUE

(* What the handler has after collect_model: the outcome, and the part of  *)
(* the form the element loop read.                                         *)
Collected(c, form) ==
    [op |-> "collect_model", raised |-> (c.error # ""), u |-> NoVec,
     R |-> NoVec, free_idx |-> <<>>, fixed_idx |-> <<>>,
     error |-> c.error, nN |-> form.nN, elem_entries |-> form.elem_entries,
     constructed |-> c.constructed]

(* refresh_model line 496, solve_model lines 565-566: a handler starts by  *)
(* collecting the model; solve_model then builds a solver on the lists.    *)
(* When collect_model raises, the handler ends with no lists and no        *)
(* solver.  A handler that has assembled goes on to solve first.           *)
CollectModel ==
    /\ ret.op # "assemble"
    /\ \E form \in Forms, proceed \in BOOLEAN :
       \E c \in {collect_model(form, proceed)} :
        /\ nodes' = c.nodes
        /\ elements' = c.elements
        /\ n' = Len(c.nodes)
        /\ K_full' = zeros2(Len(c.nodes))
        /\ F_full' = zeros(Len(c.nodes))
        /\ fixed' = [d \in 0 .. (Len(c.nodes) - 1) |-> FALSE]
        /\ u_known' = zeros(Len(c.nodes))
        /\ ret' = Collected(c, form)
        /\ assembled' = FALSE
        /\ repeated' = FALSE
        /\ UNCHANGED app

(* solve_model, line 567. *)
SolveModelAssemble ==
    /\ ret.op = "collect_model"
    /\ ~ret.raised
    /\ Assemble

(* solve_model, line 568. *)
SolveModelSolve ==
    /\ ret.op = "assemble"
    /\ Solve

(* SpecGUI: the handlers of the presentation layer, started with no model. *)

InitGUI == app = NoApp /\ NewSolver(<<>>)

NextGUI ==
    \/ CollectModel
    \/ SolveModelAssemble
    \/ SolveModelSolve

SpecGUI == InitGUI /\ [][NextGUI]_vars

----------------------------------------------------------------------------
(* The refresh timer of the App window (gui.py).  app holds the fields of  *)
(* the window that the timer code reads and writes, and Tk's queue of      *)
(* scheduled refresh_model callbacks:                                      *)
(*   num_nodes_var, num_elems_var  the two count fields of the top bar     *)
(*   force_vars, elem_entries      the lengths of the two row lists        *)
(*   suspend_traces                _suspend_traces                         *)
(*   refresh_after_id              _refresh_after_id, 0 while it is unset  *)
(*   pending                       ids of the refresh_model timers that    *)
(*                                 are scheduled and neither fired nor     *)
(*                                 cancelled                               *)
(*   after_calls                   how many times after() was called; Tk   *)
(*                                 numbers the ids it hands out in order   *)
(*   cancelled                     history: timers cancelled while pending *)
(*   handler                       history: the handler that ran last      *)

MaxCount == 3
MaxAfterCalls == 7

DefaultNodes == 3
DefaultElems == 2

NodeCounts == 0 .. MaxCount
ElemCounts == (-1) .. MaxCount

max(a, b) == IF a >= b THEN a ELSE b

(* _schedule_refresh (lines 482-492) without its after_cancel. *)
schedule_refresh_NoCancel(g) ==
    [g EXCEPT !.after_calls = g.after_calls + 1,
              !.pending = g.pending \union {g.after_calls + 1},
              !.refresh_after_id = g.after_calls + 1]

(* _schedule_refresh (lines 482-492): after_cancel of the stored id when   *)
(* one is stored, which removes it from the queue if it is still there;    *)
(* _update_bc_hint writes only bc_hint_var, which has no trace; then       *)
(* after(150, refresh_model), whose id is stored.                          *)
schedule_refresh(g) ==
    [g EXCEPT !.after_calls = g.after_calls + 1,
              !.pending = (IF g.refresh_after_id # 0
                              THEN g.pending \ {g.refresh_after_id}
                              ELSE g.pending)
                          \union {g.after_calls + 1},
              !.cancelled = IF /\ g.refresh_after_id # 0
                               /\ g.refresh_after_id \in g.pending
                               THEN g.cancelled + 1
                               ELSE g.cancelled,
              !.refresh_after_id = g.after_calls + 1]

(* _on_var_change (lines 473-480) without the test of line 474. *)
on_var_change_Unsuspended(g) == schedule_refresh(g)

(* _on_var_change (lines 473-480). *)
on_var_change(g) == IF g.suspend_traces THEN g ELSE schedule_refresh(g)

(* rebuild_element_table (lines 361-389).  The row variables are created   *)
(* with their values and get their traces afterwards (lines 377-385), so   *)
(* the loop writes no traced variable.                                     *)
rebuild_element_table(g) ==
    schedule_refresh(
        [g EXCEPT !.elem_entries = max(0, g.num_elems_var),
                  !.suspend_traces = FALSE])

(* The loop of rebuild_force_bc_table (lines 405-439) with r rows still to *)
(* build: each row is appended and its _toggle() is called (line 437),     *)
(* which ends in _on_var_change() (line 435).                              *)
RECURSIVE ToggleRows(_, _)
ToggleRows(g, r) ==
    IF r = 0
        THEN g
        ELSE ToggleRows(
                 on_var_change([g EXCEPT !.force_vars = g.force_vars + 1]),
                 r - 1)

(* rebuild_force_bc_table (lines 391-442). *)
rebuild_force_bc_table(g) ==
    schedule_refresh(
        [ToggleRows([g EXCEPT !.suspend_traces = TRUE, !.force_vars = 0],
                    max(1, g.num_nodes_var))
            EXCEPT !.suspend_traces = FALSE])

(* apply_counts (lines 512-522): the message box and return of lines       *)
(* 517-519, or both rebuilds.                                              *)
apply_counts(g) ==
    IF g.num_nodes_var < 1 \/ g.num_elems_var < 0
        THEN g
        ELSE rebuild_force_bc_table(rebuild_element_table(g))

(* The window before App.__init__ has built a table: lines 170-171, no     *)
(* _suspend_traces and no _refresh_after_id attribute yet.                 *)
NewApp ==
    [num_nodes_var |-> DefaultNodes, num_elems_var |-> DefaultElems,
     force_vars |-> 0, elem_entries |-> 0,
     suspend_traces |-> FALSE, refresh_after_id |-> 0,
     pending |-> {}, after_calls |-> 0, cancelled |-> 0,
     handler |-> "__init__"]

(* App.__init__ (lines 156-181). *)
AppInit == rebuild_force_bc_table(rebuild_element_table(NewApp))

Ran(g, h) == [g EXCEPT !.handler = h]

solverVars == <<nodes, elements, n, K_full, F_full, fixed, u_known, ret,
                assembled, repeated>>

(* The user types a count into a field of the top bar (lines 188-192):     *)
(* the variables behind the two fields have no trace.                      *)
TypeNodeCount(v) ==
    /\ app.num_nodes_var # v
    /\ app' = Ran([app EXCEPT !.num_nodes_var = v], "entry")
    /\ UNCHANGED solverVars

TypeElemCount(v) ==
    /\ app.num_elems_var # v
    /\ app' = Ran([app EXCEPT !.num_elems_var = v], "entry")
    /\ UNCHANGED solverVars

(* The Apply Counts button (line 194). *)
ApplyCounts ==
    /\ app.after_calls + 2 <= MaxAfterCalls
    /\ app' = Ran(apply_counts(app), "apply_counts")
    /\ UNCHANGED solverVars

(* The user writes a variable of a table row: the trace of lines 383-385,  *)
(* 415, 438 or 439 calls _on_var_change.                                   *)
WriteTableVar ==
    /\ app.force_vars + app.elem_entries > 0
    /\ app.after_calls < MaxAfterCalls
    /\ app' = Ran(on_var_change(app), "_on_var_change")
    /\ UNCHANGED solverVars

(* A scheduled timer fires and Tk calls refresh_model (lines 494-510),     *)
(* which schedules nothing and leaves _refresh_after_id as it is.          *)
FireRefresh ==
    /\ \E id \in app.pending :
           app' = Ran([app EXCEPT !.pending = app.pending \ {id}],
                      "refresh_model")
    /\ UNCHANGED solverVars

(* SpecRefresh: the window from its construction on, under the user's      *)
(* edits, the Apply Counts button and Tk's timer.                          *)

InitRefresh == app = AppInit /\ NewSolver(<<>>)

NextRefresh ==
    \/ \E v \in NodeCounts : TypeNodeCount(v)
    \/ \E v \in ElemCounts : TypeElemCount(v)
    \/ ApplyCounts
    \/ WriteTableVar
    \/ FireRefresh

SpecRefresh == InitRefresh /\ [][NextRefresh]_vars

----------------------------------------------------------------------------
(* Properties. *)

Assembling == ret.op = "assemble"
Solved == ret.op = "solve" /\ ~ret.raised

(* C1: constructing a SpringElement whose two nodes have the same id, or   *)
(* whose stiffness is <= 0, raises, and the failed construction adds no    *)
(* element and changes no node field and no solver state.  As a property   *)
(* of every constructor call: the call either raises and changes nothing,  *)
(* or appends an element whose nodes have different ids and whose          *)
(* stiffness is > 0.                                                       *)
C1_InvalidElementRaises ==
    [][ret'.op = "SpringElement" =>
          IF ret'.raised
          THEN UNCHANGED <<nodes, elements, n, K_full, F_full, fixed, u_known>>
          ELSE /\ Len(elements') = Len(elements) + 1
               /\ nodes[elements'[Len(elements')].i].id
                    # nodes[elements'[Len(elements')].j].id
               /\ elements'[Len(elements')].k > 0]_vars

C1_Witness ==
    /\ ret.op = "SpringElement"
    /\ ret.raised
    /\ assembled
    /\ Len(elements) > 0
    /\ \E a \in DOFs : K_full[a][a] > 0

(* C2: for every element with k > 0, ke() is [[k, -k], [-k, k]]: it is     *)
(* symmetric and each of its rows sums to zero.                            *)
C2_ElementBlock ==
    \A p \in 1 .. Len(elements) :
        LET k == elements[p].k
            m == ke(elements[p])
        IN  k > 0 =>
              /\ m = <<<<k, -k>>, <<-k, k>>>>
              /\ m[1][2] = m[2][1]
              /\ m[1][1] + m[1][2] = 0
              /\ m[2][1] + m[2][2] = 0

C2_Witness ==
    /\ Len(elements) = 2
    /\ elements[1].k = 1
    /\ elements[2].k = 10

(* C3: after assemble(), the stored global matrix K is symmetric.          *)
C3_KSymmetric ==
    assembled => \A a \in DOFs, b \in DOFs : K_full[a][b] = K_full[b][a]

C3_Witness ==
    /\ Assembling
    /\ Len(elements) = 2
    /\ \E a \in DOFs, b \in DOFs : a # b /\ K_full[a][b] # 0

(* Sum of k over the elements whose list positions are in P. *)
RECURSIVE SumK(_)
SumK(P) ==
    IF P = {} THEN 0
    ELSE LET p == CHOOSE q \in P : TRUE
         IN  elements[p].k + SumK(P \ {p})

EndDofs(p) == {nodes[elements[p].i].dof, nodes[elements[p].j].dof}

(* C4: assemble() yields, for the element list in any order, the K whose   *)
(* diagonal entry at d is the sum of k over the elements incident to d and *)
(* whose entry at a # b is minus the sum of k over the elements joining a  *)
(* and b in either orientation, each element counted once.                 *)
C4_KIsSumOfElements ==
    Assembling =>
      /\ \A a \in DOFs, b \in DOFs :
            K_full[a][b] =
                IF a = b
                THEN SumK({p \in 1 .. Len(elements) : a \in EndDofs(p)})
                ELSE -SumK({p \in 1 .. Len(elements) : EndDofs(p) = {a, b}})
      /\ \A f \in Permutations(1 .. Len(elements)) :
            AssembleK([p \in 1 .. Len(elements) |-> elements[f[p]]]) = K_full

C4_Witness ==
    /\ Assembling
    /\ Len(elements) = 2
    /\ elements[1].i = elements[2].j
    /\ elements[1].j = elements[2].i
    /\ elements[1].k # elements[2].k

(* C5: assemble() captures from the node list in index order F[d] = the    *)
(* node's load, mask[d] = the node's constrained flag and known[d] = the   *)
(* node's prescribed displacement if its has-prescribed-value flag is set, *)
(* otherwise 0.                                                            *)
C5_Captured ==
    Assembling =>
      \A d \in DOFs :
        /\ F_full[d] = nodes[d + 1].force
        /\ fixed[d] = nodes[d + 1].fixed
        /\ u_known[d] = IF nodes[d + 1].prescribed
                        THEN nodes[d + 1].u_prescribed ELSE 0

C5_Witness ==
    /\ Assembling
    /\ \E p \in 1 .. n : ~nodes[p].prescribed /\ nodes[p].u_prescribed = 2
    /\ \E p \in 1 .. n : nodes[p].force = 5
    /\ \E p \in 1 .. n : nodes[p].fixed
    /\ \E p \in 1 .. n : ~nodes[p].fixed

(* C6: assemble() called again right after assemble() leaves K, F, the     *)
(* mask and the known displacements as the first call left them.           *)
C6_AssembleIdempotent ==
    [][(Assembling /\ ret'.op = "assemble")
          => UNCHANGED <<K_full, F_full, fixed, u_known>>]_vars

C6_Witness ==
    /\ Assembling
    /\ repeated
    /\ Len(elements) = 2
    /\ \E a \in DOFs : K_full[a][a] > 0

(* C7: solve() assembles only if assemble() has not yet run; once it has   *)
(* run, solve() works on the stored K, F, mask and known displacements and *)
(* does not read the nodes and elements again.  Stated for a stored K that *)
(* has a non-zero entry, which only assembly can have produced.            *)
C7_SolveKeepsAssembled ==
    [][(assembled /\ K_full # zeros2(n) /\ ret'.op = "solve")
          => UNCHANGED <<K_full, F_full, fixed, u_known>>]_vars

IsAscending(s) == \A p \in 1 .. (Len(s) - 1) : s[p] < s[p + 1]
Elems(s) == {s[p] : p \in 1 .. Len(s)}

(* C8: the free_indices and fixed_indices of a successful solve() are      *)
(* disjoint, cover 0..n-1, are each ascending, and a DOF is in             *)
(* fixed_indices exactly when its node's constrained flag is set.          *)
C8_Partition ==
    Solved =>
      /\ Elems(ret.free_idx) \cap Elems(ret.fixed_idx) = {}
      /\ Elems(ret.free_idx) \cup Elems(ret.fixed_idx) = DOFs
      /\ IsAscending(ret.free_idx)
      /\ IsAscending(ret.fixed_idx)
      /\ \A d \in DOFs : d \in Elems(ret.fixed_idx) <=> nodes[d + 1].fixed

C8_Witness ==
    /\ Solved
    /\ n = 3
    /\ ret.free_idx = <<1>>
    /\ ret.fixed_idx = <<0, 2>>

(* C9: after a successful solve(), the displacement of every constrained   *)
(* node is its prescribed displacement if its has-prescribed-value flag is *)
(* set and 0 otherwise, whatever its prescribed-value field and load hold. *)
C9_KnownDisplacements ==
    Solved =>
      \A p \in 1 .. n :
        nodes[p].fixed =>
          LET known == IF nodes[p].prescribed
                       THEN nodes[p].u_prescribed ELSE 0
          IN  /\ nodes[p].u = <<known, 1>>
              /\ ret.u[p - 1] = <<known, 1>>

C9_Witness ==
    /\ Solved
    /\ Len(ret.free_idx) > 0
    /\ \E p \in 1 .. n :
          /\ nodes[p].fixed
          /\ ~nodes[p].prescribed
          /\ nodes[p].u_prescribed = 2
          /\ nodes[p].force = 5
          /\ nodes[p].u = <<0, 1>>

(* Sums over a set of DOFs: of integers, and of rationals. *)
RECURSIVE ITotal(_, _)
ITotal(P, f) ==
    IF P = {} THEN 0
    ELSE LET d == CHOOSE q \in P : TRUE
         IN  f[d] + ITotal(P \ {d}, f)

RECURSIVE RTotal(_, _)
RTotal(P, f) ==
    IF P = {} THEN <<0, 1>>
    ELSE LET d == CHOOSE q \in P : TRUE
             r == RTotal(P \ {d}, f)
         IN  <<f[d][1] * r[2] + r[1] * f[d][2], f[d][2] * r[2]>>

RTimes(i, x) == <<i * x[1], x[2]>>
RSame(x, y) == x[1] * y[2] = y[1] * x[2]

(* C10: with a free DOF and a non-singular reduced matrix, the free        *)
(* displacements satisfy K_ff u_f = F_f - K_fc u_c, u_c being the known    *)
(* displacements of the constrained DOFs; one spring k = 10 with node 1    *)
(* fixed and load 5 on node 2 gives u2 = 1/2, and the chain k = 1, 1 with  *)
(* node 1 fixed and node 3 prescribed at 2 gives u2 = 1.                   *)
SingleSpringCase ==
    /\ n = 2
    /\ Len(elements) = 1
    /\ elements[1].k = 10
    /\ EndDofs(1) = {0, 1}
    /\ nodes[1].fixed /\ ~nodes[1].prescribed
    /\ ~nodes[2].fixed /\ nodes[2].force = 5

PrescribedChainCase ==
    /\ n = 3
    /\ Len(elements) = 2
    /\ elements[1].k = 1 /\ EndDofs(1) = {0, 1}
    /\ elements[2].k = 1 /\ EndDofs(2) = {1, 2}
    /\ nodes[1].fixed /\ ~nodes[1].prescribed
    /\ ~nodes[2].fixed /\ nodes[2].force = 0
    /\ nodes[3].fixed /\ nodes[3].prescribed /\ nodes[3].u_prescribed = 2

C10_ReducedSystem ==
    (Solved /\ Len(ret.free_idx) > 0) =>
      /\ \A a \in Elems(ret.free_idx) :
            RSame(RTotal(Elems(ret.free_idx),
                         [b \in DOFs |-> RTimes(K_full[a][b], ret.u[b])]),
                  <<F_full[a] - ITotal(Elems(ret.fixed_idx),
                                       [c \in DOFs |-> K_full[a][c] * u_known[c]]),
                    1>>)
      /\ SingleSpringCase => ret.u[1] = <<1, 2>>
      /\ PrescribedChainCase => ret.u[1] = <<1, 1>>

C10_Witness ==
    /\ Solved
    /\ PrescribedChainCase
    /\ nodes[2].u = <<1, 1>>

FreeDofs == {d \in DOFs : ~fixed[d]}
FixedDofs == {d \in DOFs : fixed[d]}
Incident(d) == \E p \in 1 .. Len(elements) : d \in EndDofs(p)

(* K_ff has a non-zero null vector with entries 0 and 1: x is 0 at the     *)
(* constrained DOFs, 1 at some free DOF, and K x is 0 at every free DOF.   *)
HasNullVector ==
    \E x \in [DOFs -> {0, 1}] :
        /\ \A d \in FixedDofs : x[d] = 0
        /\ \E d \in FreeDofs : x[d] = 1
        /\ \A a \in FreeDofs :
              ITotal(DOFs, [b \in DOFs |-> K_full[a][b] * x[b]]) = 0

KTimesU(d) == RTotal(DOFs, [b \in DOFs |-> RTimes(K_full[d][b], ret.u[b])])

(* C12: the reaction vector of a successful solve() is R = K u - F over    *)
(* all DOFs: it is zero at every free DOF, and at every constrained DOF d  *)
(* R[d] + F[d] = (K u)[d], so a load applied at a constrained DOF enters   *)
(* its reaction with opposite sign.  With no load on the constrained nodes *)
(* the single spring gives a reaction of -5 at node 1, and the prescribed  *)
(* chain gives -1 at node 1 and +1 at node 3.                              *)
C12_Reactions ==
    Solved =>
      /\ \A d \in DOFs :
            RSame(<<ret.R[d][1] + F_full[d] * ret.R[d][2], ret.R[d][2]>>,
                  KTimesU(d))
      /\ \A d \in FreeDofs : ret.R[d] = <<0, 1>>
      /\ (SingleSpringCase /\ F_full[0] = 0) => ret.R[0] = <<-5, 1>>
      /\ (PrescribedChainCase /\ F_full[0] = 0 /\ F_full[2] = 0)
            => ret.R[0] = <<-1, 1>> /\ ret.R[2] = <<1, 1>>

C12_Witness ==
    /\ Solved
    /\ FreeDofs # {}
    /\ \E d \in FixedDofs : F_full[d] = 5 /\ ret.R[d] = <<-6, 1>>

(* C13: global equilibrium.  After every successful solve(), general or   *)
(* all-fixed, the sum of the applied loads over all DOFs plus the sum of   *)
(* the reactions at the constrained DOFs is zero.                          *)
C13_GlobalEquilibrium ==
    Solved =>
      RSame(RTotal(FixedDofs, ret.R), <<-ITotal(DOFs, F_full), 1>>)

C13_Witness ==
    /\ Solved
    /\ FreeDofs # {}
    /\ \E d \in FreeDofs : F_full[d] = 5
    /\ \E d \in FixedDofs : u_known[d] = 2
    /\ Cardinality({d \in FixedDofs : ret.R[d] # <<0, 1>>}) = 2

(* C14: solve() called again right after solve(), with no input field of  *)
(* a node or element changed in between, has the same outcome: the same    *)
(* displacement and reaction vectors and index lists, and the same node    *)
(* displacements and element axial forces as the first call left.          *)
C14_SolveIdempotent ==
    [][(ret.op = "solve" /\ ret'.op = "solve")
          => /\ ret' = ret
             /\ nodes' = nodes
             /\ elements' = elements]_vars

C14_Witness ==
    /\ Solved
    /\ repeated
    /\ \E d \in FreeDofs : ret.u[d] # <<0, 1>>
    /\ \E p \in 1 .. Len(elements) : elements[p].axial # <<0, 1>>

(* k (u_j - u_i) for element p and the returned displacement vector. *)
Stretch(p) ==
    LET ui == ret.u[nodes[elements[p].i].id - 1]
        uj == ret.u[nodes[elements[p].j].id - 1]
    IN  <<elements[p].k * (uj[1] * ui[2] - ui[1] * uj[2]), ui[2] * uj[2]>>

(* C15: after a successful solve() on nodes with ids 1..n in list order,   *)
(* every node's u is the returned u at the node's DOF, every element's     *)
(* axial is k (u[dof(j)] - u[dof(i)]), and element_forces() lists these    *)
(* axial values in element-list order; the single spring k = 10 from node  *)
(* 1 (fixed) to node 2 (load 5) carries an axial force of 5.               *)
C15_WriteBack ==
    Solved =>
      /\ \A p \in 1 .. n : nodes[p].u = ret.u[nodes[p].id - 1]
      /\ \A p \in 1 .. Len(elements) : RSame(elements[p].axial, Stretch(p))
      /\ Len(element_forces) = Len(elements)
      /\ \A p \in 1 .. Len(elements) : RSame(element_forces[p], Stretch(p))
      /\ (SingleSpringCase /\ elements[1].i = 1) => element_forces = <<<<5, 1>>>>

C15_Witness ==
    /\ Solved
    /\ Len(elements) = 2
    /\ elements[1].i > elements[1].j
    /\ elements[1].axial[1] < 0
    /\ elements[2].axial[1] > 0

(* Displacement vectors nodal_actions() is tried on: the vector a solve   *)
(* has just returned, and every vector over two sample values.             *)
SampleDisplacements == {<<-1, 1>>, <<1, 2>>}

TrialVectors ==
    [DOFs -> SampleDisplacements] \cup (IF Solved THEN {ret.u} ELSE {})

RNeg(x) == <<-x[1], x[2]>>

(* C16: for every element and every displacement vector u,                 *)
(* nodal_actions(u) is (k (u_i - u_j), k (u_j - u_i)): the two end forces  *)
(* sum to zero, the force on node j is axial_force(u) and the force on     *)
(* node i is its negation.                                                 *)
C16_NodalActions ==
    \A p \in 1 .. Len(elements) : \A u \in TrialVectors :
    \A a \in {nodal_actions(elements[p], u)} :
    \A f \in {axial_force(elements[p], u)} :
    \A ui \in {u[nodes[elements[p].i].id - 1]} :
    \A uj \in {u[nodes[elements[p].j].id - 1]} :
    \A k \in {elements[p].k} :
        /\ Len(a) = 2
        /\ RSame(a[1], <<k * (ui[1] * uj[2] - uj[1] * ui[2]), ui[2] * uj[2]>>)
        /\ RSame(a[2], <<k * (uj[1] * ui[2] - ui[1] * uj[2]), ui[2] * uj[2]>>)
        /\ a[1][1] * a[2][2] + a[2][1] * a[1][2] = 0
        /\ RSame(a[2], f)
        /\ RSame(a[1], RNeg(f))

C16_Witness ==
    /\ Solved
    /\ \E p \in 1 .. Len(elements) :
          /\ nodal_actions(elements[p], ret.u) = <<<<-5, 1>>, <<5, 1>>>>
          /\ elements[p].axial = <<5, 1>>

(* Loads the second model may carry at the constrained DOF. *)
OtherLoads == {-3, 0, 5}

(* The system assemble() stores for the model that differs from the one    *)
(* just solved only in the load f at DOF d.                                *)
WithLoad(d, f) ==
    [K |-> K_full, F |-> [F_full EXCEPT ![d] = f],
     fixed |-> fixed, u_known |-> u_known]

(* C17: two models that differ only in the load at one constrained DOF d   *)
(* both solve or both fail; when they solve, their displacement vectors    *)
(* and element axial forces are the same and their reaction vectors differ *)
(* only at d, by minus the load difference.                                *)
C17_LoadAtConstrainedDof ==
    ret.op = "solve" =>
      \A d \in FixedDofs : \A f \in OtherLoads \ {F_full[d]} :
      \A o \in {SolveResult(WithLoad(d, f))} :
        /\ o.raised = ret.raised
        /\ ~ret.raised =>
              /\ o.u = ret.u
              /\ o.axial = element_forces
              /\ \A a \in DOFs \ {d} : o.R[a] = ret.R[a]
              /\ RSame(o.R[d],
                       <<ret.R[d][1] - (f - F_full[d]) * ret.R[d][2],
                         ret.R[d][2]>>)

C17_Witness ==
    /\ Solved
    /\ FreeDofs # {}
    /\ \E p \in 1 .. Len(elements) : elements[p].axial # <<0, 1>>
    /\ \E d \in FixedDofs :
          /\ F_full[d] = 5
          /\ SolveResult(WithLoad(d, -3)).R[d] = RAdd(ret.R[d], <<8, 1>>)

(* C18: collect_model() hands the core well-formed input only: the nodes  *)
(* it builds have id = list position + 1 (ids 1..n, 0-based positions), a  *)
(* node has its has-prescribed-value flag set only if it is constrained,   *)
(* every element built joins two nodes of the list, and an element row     *)
(* whose i or j lies outside 1..n makes collect_model raise with no        *)
(* SpringElement constructed for that row.                                 *)
C18_WellFormedInput ==
    /\ n = Len(nodes)
    /\ \A p \in 1 .. Len(nodes) :
          /\ nodes[p].id = p
          /\ nodes[p].dof = p - 1
          /\ nodes[p].prescribed => nodes[p].fixed
    /\ \A p \in 1 .. Len(elements) :
          /\ elements[p].i \in 1 .. n
          /\ elements[p].j \in 1 .. n
    /\ ret.op = "collect_model" =>
          \A r \in 1 .. Len(ret.elem_entries) :
              (\/ ret.elem_entries[r].i \notin 1 .. ret.nN
               \/ ret.elem_entries[r].j \notin 1 .. ret.nN)
                => /\ ret.raised
                   /\ r \notin Elems(ret.constructed)

C18_Witness ==
    /\ ret.op = "collect_model"
    /\ ret.raised
    /\ ret.error = "range"
    /\ ret.nN = 2
    /\ Len(ret.elem_entries) = 1
    /\ ret.elem_entries[1].i = 0
    /\ ret.elem_entries[1].j = 1
    /\ ret.elem_entries[1].k = 10
    /\ ret.constructed = <<>>

(* C19: when every DOF is constrained, solve() does not raise, whatever    *)
(* the elements are: the returned u is the vector of known values, R is    *)
(* K u - F, free_indices is empty, and the node displacements and element  *)
(* axial forces are written back as in the general case.                   *)
C19_AllFixed ==
    (ret.op = "solve" /\ \A p \in 1 .. n : nodes[p].fixed) =>
      /\ ~ret.raised
      /\ ret.free_idx = <<>>
      /\ ret.fixed_idx = Range0(n)
      /\ \A p \in 1 .. n :
            /\ ret.u[p - 1] = <<IF nodes[p].prescribed
                                THEN nodes[p].u_prescribed ELSE 0, 1>>
            /\ nodes[p].u = ret.u[p - 1]
      /\ \A d \in DOFs :
            RSame(<<ret.R[d][1] + nodes[d + 1].force * ret.R[d][2], ret.R[d][2]>>,
                  KTimesU(d))
      /\ \A p \in 1 .. Len(elements) : RSame(elements[p].axial, Stretch(p))

C19_Witness ==
    /\ Solved
    /\ n = 3
    /\ \A p \in 1 .. n : nodes[p].fixed
    /\ Len(elements) = 2
    /\ nodes[3].prescribed /\ nodes[3].u_prescribed = 2
    /\ nodes[2].force = 5
    /\ ret.u = [d \in DOFs |-> IF d = 2 THEN <<2, 1>> ELSE <<0, 1>>]
    /\ ret.R[1] # <<-5, 1>>
    /\ elements[2].axial # <<0, 1>>

(* The connected component of DOF d in the spring graph: the DOFs joined  *)
(* to d by a path of elements (d alone when no element touches it).        *)
RECURSIVE Grow(_)
Grow(C) ==
    LET C2 == C \cup {b \in DOFs : \E a \in C : \E p \in 1 .. Len(elements) :
                                        EndDofs(p) = {a, b}}
    IN  IF C2 = C THEN C ELSE Grow(C2)

ComponentOf(d) == Grow({d})

(* C20: with at least one free DOF (and every k > 0), solve() succeeds     *)
(* exactly when every connected component of the spring graph that         *)
(* contains a free DOF also contains a constrained node; otherwise it      *)
(* raises.                                                                 *)
C20_SolvableIffSupported ==
    (ret.op = "solve" /\ FreeDofs # {}) =>
      /\ \A p \in 1 .. Len(elements) : elements[p].k > 0
      /\ ~ret.raised <=>
            \A d \in FreeDofs : ComponentOf(d) \cap FixedDofs # {}

C20_Witness ==
    /\ ret.op = "solve"
    /\ ret.raised
    /\ n = 3
    /\ FixedDofs # {}
    /\ \A d \in FreeDofs : Incident(d)

(* C21: a solve() that raises the singularity error changes no node's u   *)
(* and no element's axial: both keep the values they had before the call.  *)
C21_FailedSolveKeepsResults ==
    [][(ret'.op = "solve" /\ ret'.raised)
          => /\ nodes' = nodes
             /\ elements' = elements]_vars

C21_Witness ==
    /\ ret.op = "solve"
    /\ ret.raised
    /\ \E p \in 1 .. n : nodes[p].u # <<0, 1>>
    /\ \E p \in 1 .. Len(elements) : elements[p].axial # <<0, 1>>

(* Prescribed values the second model may hold at the free DOF. *)
OtherKnown == {-7, 0, 2}

(* The system assemble() stores for the model that differs from the one    *)
(* just solved only in the prescribed value v of the node at DOF d (v = 0  *)
(* is also what is stored when the node's flag is cleared).                *)
WithKnown(d, v) ==
    [K |-> K_full, F |-> F_full, fixed |-> fixed,
     u_known |-> [u_known EXCEPT ![d] = v]]

(* C22: a node whose has-prescribed-value flag is set but whose            *)
(* constrained flag is not is a free DOF for solve(): it is listed in      *)
(* free_indices, its displacement is solved for (zero residual there), and *)
(* its prescribed value changes no displacement, reaction or axial force,  *)
(* nor whether solve() raises.                                             *)
C22_PrescribedButFree ==
    ret.op = "solve" =>
      \A p \in 1 .. n :
        (nodes[p].prescribed /\ ~nodes[p].fixed) =>
          /\ ~ret.raised =>
                /\ (p - 1) \in Elems(ret.free_idx)
                /\ (p - 1) \notin Elems(ret.fixed_idx)
                /\ RSame(KTimesU(p - 1), <<nodes[p].force, 1>>)
          /\ \A v \in OtherKnown \ {u_known[p - 1]} :
             \A o \in {SolveResult(WithKnown(p - 1, v))} :
                /\ o.raised = ret.raised
                /\ o.u = ret.u
                /\ o.R = ret.R
                /\ ~ret.raised => o.axial = element_forces

C22_Witness ==
    /\ Solved
    /\ \E p \in 1 .. n :
          /\ nodes[p].prescribed
          /\ ~nodes[p].fixed
          /\ nodes[p].u_prescribed = 2
          /\ u_known[p - 1] = 2
          /\ nodes[p].u = <<1, 2>>

(* C23: refresh debounce.  After any sequence of edits, rebuilds and timer *)
(* firings at most one refresh_model timer is pending, and a pending timer *)
(* is the one _refresh_after_id names; no handler leaves _suspend_traces   *)
(* set, and _on_var_change called with it set changes nothing.  Each       *)
(* _on_var_change outside a rebuild makes one after() call, and an         *)
(* apply_counts that rebuilds makes two, one per table, whatever the       *)
(* number of rows whose _toggle() ran during the rebuild; every timer      *)
(* scheduled so far was cancelled, has fired, or is the pending one.       *)
Suspended(g) == [g EXCEPT !.suspend_traces = TRUE]

C23_RefreshDebounce ==
    /\ [](/\ Cardinality(app.pending) <= 1
          /\ app.pending # {} => app.pending = {app.refresh_after_id}
          /\ app.refresh_after_id = app.after_calls
          /\ ~app.suspend_traces
          /\ on_var_change(Suspended(app)) = Suspended(app))
    /\ [][/\ app'.handler = "_on_var_change"
             => /\ app'.after_calls = app.after_calls + 1
                /\ app'.pending = {app'.after_calls}
                /\ app'.cancelled = app.cancelled + Cardinality(app.pending)
          /\ (app'.handler = "apply_counts" /\ app'.after_calls # app.after_calls)
             => /\ app'.after_calls = app.after_calls + 2
                /\ app'.force_vars = max(1, app.num_nodes_var)
                /\ app'.pending = {app'.after_calls}
                /\ app'.cancelled = app.cancelled + 1 + Cardinality(app.pending)
          /\ app'.handler = "refresh_model"
             => /\ app'.pending = {}
                /\ app'.after_calls = app.after_calls]_vars

C23_Witness ==
    /\ app.handler = "apply_counts"
    /\ app.force_vars = 2
    /\ app.after_calls = 7
    /\ app.cancelled >= 4
    /\ app.pending = {7}

====
